---- MODULE Spec2Model ----
(***************************************************************************)
(* Model of src/promise.h: the settlement State, the Deffered producer     *)
(* handle, the Promise facade with Then / Exception / Finally, and the     *)
(* factories MakeReadyPromise / MakeException, plus the reference chain of *)
(* src/unnamed/part_000 (main).                                            *)
(*                                                                         *)
(* Every dispatch in the source is a direct, synchronous call, so one      *)
(* action is one call of the public interface together with the whole      *)
(* cascade of continuations it runs.                                       *)
(***************************************************************************)
EXTENDS Integers, Sequences, FiniteSets, TLC

VARIABLES
  states,    \* heap of State<T...> objects, a sequence; a State is named by its index
  conts,     \* heap of Runnable objects (Resolver / Rejecter), a sequence
  log,       \* history: every Runnable::SetValue / SetException call made by a State
  trace,     \* history: every call of a user supplied function
  asserts,   \* number of assert(0) reached (Resolver::SetException, Rejecter::SetValue)
  freed,     \* history: ids of the Runnable objects deleted, in order
  calls,     \* number of calls of the public interface made so far
  lastCall,  \* history: the last call of the public interface and what it returned
  handles,   \* the States the caller holds a Promise for
  deffereds, \* the States the caller holds a Deffered for
  pc,        \* main() of src/unnamed/part_000: where it is (at) and the facade its
             \* chain expression holds (cur)
  input      \* main(): the literals of part_000:16-17, 27 and 42

vars == <<states, conts, log, trace, asserts, freed, calls, lastCall, handles,
         deffereds, pc, input>>

----------------------------------------------------------------------------
(* Bounds *)

\* number of calls of the public interface in one behaviour
MaxCalls == 4

----------------------------------------------------------------------------
(* Values: elements of a std::tuple<T...>, SException *)

\* enum class status
pending == "pending"
fulfilled == "fulfilled"
rejected == "rejected"

\* a null SException / Runnable pointer
nullptr == "nullptr"
NoRunnable == 0

\* an int element and a std::string element of a bundle
I(n) == [int |-> n]
S(s) == [str |-> s]
IsInt(x) == DOMAIN x = {"int"}

\* the template parameter pack T... of a bundle
TypeOf(B) == [i \in DOMAIN B |-> IF IsInt(B[i]) THEN "int" ELSE "str"]

\* std::tuple<T...> _value; default construction value-initialises the elements
DefaultOf(ty) == [i \in DOMAIN ty |-> IF ty[i] = "int" THEN I(0) ELSE S("")]

\* what is left in a tuple after it was the source of a move construction:
\* an int is copied and keeps its value, a std::string is left empty
MovedFrom(B) == [i \in DOMAIN B |-> IF IsInt(B[i]) THEN B[i] ELSE S("")]

----------------------------------------------------------------------------
(* Objects *)

\* State() = default, with the member initialisers of promise.h:133-137
NewState(ty) ==
  [ty |-> ty, st |-> pending, done |-> NoRunnable, fail |-> NoRunnable,
   value |-> DefaultOf(ty), e |-> nullptr]

\* the assert statements at the head of a user function: none, one per element
\* of the expected bundle ("val"), assert(e) and assert(what == ...) ("exc"),
\* or assert(0) ("never")
NoChk == [k |-> "none", v |-> <<>>, e |-> nullptr]
ExpectVal(v) == [k |-> "val", v |-> v, e |-> nullptr]
ExpectExc(e) == [k |-> "exc", v |-> <<>>, e |-> e]
ExpectNever == [k |-> "never", v |-> <<>>, e |-> nullptr]

\* the number of assert statements of chk that fail on the arguments (val, e)
Failed(chk, val, e) ==
  CASE chk.k = "val"   -> Cardinality({i \in DOMAIN val : val[i] # chk.v[i]})
    [] chk.k = "exc"   -> IF e = chk.e THEN 0 ELSE 1
    [] chk.k = "never" -> 1
    [] OTHER           -> 0

NoFn == [id |-> "none", rty |-> <<>>, k |-> "none", v |-> <<>>, e |-> nullptr,
         chk |-> NoChk]

\* a user function that returns MakeReadyPromise(v...)
FnValue(id, v) ==
  [id |-> id, rty |-> TypeOf(v), k |-> "value", v |-> v, e |-> nullptr, chk |-> NoChk]
\* a user function that returns MakeException<rty...>(e)
FnExc(id, rty, e) ==
  [id |-> id, rty |-> rty, k |-> "exc", v |-> <<>>, e |-> e, chk |-> NoChk]
\* a user function that returns the facade of a Deffered nobody settled yet
\* and keeps the Deffered
FnPending(id, rty) ==
  [id |-> id, rty |-> rty, k |-> "pending", v |-> <<>>, e |-> nullptr, chk |-> NoChk]
\* a user function that returns MakeReadyPromise(std::move(args)...)
FnEcho(id, rty) ==
  [id |-> id, rty |-> rty, k |-> "echo", v |-> <<>>, e |-> nullptr, chk |-> NoChk]
\* a user function that returns nothing (Finally's, or a plain probe)
FnVoid(id) ==
  [id |-> id, rty |-> <<>>, k |-> "void", v |-> <<>>, e |-> nullptr, chk |-> NoChk]

\* Resolver{func} / Rejecter{func}: cls is the class, k says which lambda func is
Runnable(cls, k, fn, tgt) == [cls |-> cls, k |-> k, fn |-> fn, tgt |-> tgt]

\* the part of the program a cascade of dispatches reads and writes; owned is
\* the set of States whose Deffered the user's code keeps
World == [states |-> states, conts |-> conts, log |-> log, trace |-> trace,
          asserts |-> asserts, call |-> calls + 1, owned |-> deffereds]

SetState(w, s, r) == [w EXCEPT !.states[s] = r]

----------------------------------------------------------------------------
(* History kept for the properties; the program does not read it *)

Logged(w, s, c, side, val, e) ==
  [w EXCEPT !.log = Append(@, [s |-> s, cont |-> c, side |-> side, val |-> val,
                               e |-> e, call |-> w.call])]

Traced(w, c, fn, sig, val, e) ==
  [w EXCEPT !.trace = Append(@, [fn |-> fn.id, cont |-> c, sig |-> sig, val |-> val,
                                 e |-> e, call |-> w.call])]

----------------------------------------------------------------------------
(* internal::State, internal::Resolver, internal::Rejecter *)

RECURSIVE State_SetValue(_, _, _)
RECURSIVE State_SetException(_, _, _)

\* variant: get_value without the status reset
get_value_keep_status(w, s) == SetState(w, s, [w.states[s] EXCEPT !.value = MovedFrom(@)])

\* State::get_value: _st = pending, and the caller move-constructs from the
\* returned rvalue reference (promise.h:43 through std::function's by-value
\* parameters, promise.h:173 through the returned ValueType)
get_value(w, s) ==
  SetState(w, s, [w.states[s] EXCEPT !.st = pending, !.value = MovedFrom(@)])

\* variant: get_exception without the status reset
get_exception_keep_status(w, s) == SetState(w, s, [w.states[s] EXCEPT !.e = nullptr])

\* State::get_exception: _st = pending, the shared_ptr is moved out
get_exception(w, s) ==
  SetState(w, s, [w.states[s] EXCEPT !.st = pending, !.e = nullptr])

\* Promise::GetValue / GetException read the payload that was stored
ReadValue(w, s) == w.states[s].value
ReadException(w, s) == w.states[s].e

\* MakeReadyPromise(values...): a fresh State settled at once
MakeReadyPromise(w, v) ==
  LET w1 == [w EXCEPT !.states = Append(@, NewState(TypeOf(v)))]
  IN  State_SetValue(w1, Len(w1.states), v)

\* MakeException<T...>(e)
MakeException(w, ty, e) ==
  LET w1 == [w EXCEPT !.states = Append(@, NewState(ty))]
  IN  State_SetException(w1, Len(w1.states), e)

\* the body of the user function fn called with (val, e): its assert
\* statements (a failing assert is counted and the run goes on, as it does
\* under NDEBUG), then what it returns: a facade r, the State appended last
CallFn(w, fn, val, e) ==
  LET w1 == [w EXCEPT !.asserts = @ + Failed(fn.chk, val, e)] IN
  CASE fn.k = "value"   -> MakeReadyPromise(w1, fn.v)
    [] fn.k = "echo"    -> MakeReadyPromise(w1, val)
    [] fn.k = "exc"     -> MakeException(w1, fn.rty, fn.e)
    [] fn.k = "pending" -> [w1 EXCEPT !.states = Append(@, NewState(fn.rty)),
                                      !.owned = @ \cup {Len(w1.states) + 1}]
    [] OTHER            -> w1

\* func(args...): the call is recorded in trace, then the body runs
Invoke(w, c, fn, sig, val, e) == CallFn(Traced(w, c, fn, sig, val, e), fn, val, e)

\* variant: Forward without the case status::rejected
Forward_fulfilled_only(w, r, tgt) ==
  IF w.states[r].st = fulfilled
    THEN State_SetValue(get_value(w, r), tgt, ReadValue(w, r))
    ELSE w

\* variant: Forward treating a result that is still pending as a rejection
\* without a payload
Forward_pending_rejects(w, r, tgt) ==
  CASE w.states[r].st = fulfilled ->
         State_SetValue(get_value(w, r), tgt, ReadValue(w, r))
    [] w.states[r].st = rejected ->
         State_SetException(get_exception(w, r), tgt, ReadException(w, r))
    [] OTHER -> State_SetException(w, tgt, nullptr)

\* switch (r.GetStatus()) of the done adapter of Then and the fail adapter of
\* Exception: forward r's outcome to the Deffered $ of the new stage
Forward(w, r, tgt) ==
  CASE w.states[r].st = fulfilled ->
         State_SetValue(get_value(w, r), tgt, ReadValue(w, r))
    [] w.states[r].st = rejected ->
         State_SetException(get_exception(w, r), tgt, ReadException(w, r))
    [] OTHER -> w

\* variant: Resolver_SetValue whose Then lambda drops the result of func
Resolver_SetValue_no_forward(w, c, value) ==
  LET r == w.conts[c] IN
  CASE r.k = "then_done" -> Invoke(w, c, r.fn, "value", value, nullptr)
    [] r.k = "fin_done" -> Invoke(w, c, r.fn, "exc", <<>>, nullptr)
    [] OTHER -> Invoke(w, c, r.fn, "value", value, nullptr)

\* Resolver::SetValue: std::apply(_func, value); _func is one of
\*   a function of the caller        ("probe")
\*   the done lambda of Then         ("then_done")
\*   the done lambda of Finally      ("fin_done")
Resolver_SetValue(w, c, value) ==
  LET r == w.conts[c] IN
  CASE r.k = "then_done" ->
         Forward(Invoke(w, c, r.fn, "value", value, nullptr),
                 Len(w.states) + 1, r.tgt)
    [] r.k = "fin_done" -> Invoke(w, c, r.fn, "exc", <<>>, nullptr)
    [] OTHER -> Invoke(w, c, r.fn, "value", value, nullptr)

\* variant: Rejecter_SetException whose Then lambda does not pass the error on
Rejecter_SetException_swallow(w, c, e) ==
  LET r == w.conts[c] IN
  CASE r.k = "then_fail" -> w
    [] r.k = "exc_fail" ->
         Forward(Invoke(w, c, r.fn, "exc", <<>>, e), Len(w.states) + 1, r.tgt)
    [] OTHER -> Invoke(w, c, r.fn, "exc", <<>>, e)

\* Rejecter::SetException: _func(e); _func is one of
\*   a function of the caller        ("probe")
\*   the fail lambda of Then         ("then_fail")
\*   the fail lambda of Exception    ("exc_fail")
\*   the function given to Finally   ("fin_fail")
Rejecter_SetException(w, c, e) ==
  LET r == w.conts[c] IN
  CASE r.k = "then_fail" -> State_SetException(w, r.tgt, e)
    [] r.k = "exc_fail" ->
         Forward(Invoke(w, c, r.fn, "exc", <<>>, e),
                 Len(w.states) + 1, r.tgt)
    [] OTHER -> Invoke(w, c, r.fn, "exc", <<>>, e)

\* virtual Runnable::SetValue; Rejecter::SetValue is assert(0)
Runnable_SetValue(w, c, value) ==
  IF w.conts[c].cls = "Resolver"
    THEN Resolver_SetValue(w, c, value)
    ELSE [w EXCEPT !.asserts = @ + 1]

\* virtual Runnable::SetException; Resolver::SetException is assert(0)
Runnable_SetException(w, c, e) ==
  IF w.conts[c].cls = "Rejecter"
    THEN Rejecter_SetException(w, c, e)
    ELSE [w EXCEPT !.asserts = @ + 1]

\* variant: DispatchDone handing over the bundle without the consuming read
DispatchDone_no_consume(w, s) ==
  LET c == w.states[s].done
      v == ReadValue(w, s)
  IN  Runnable_SetValue(Logged(w, s, c, "value", v, nullptr), c, v)

\* _done->SetValue(get_value())
DispatchDone(w, s) ==
  LET c == w.states[s].done
      v == ReadValue(w, s)
  IN  Runnable_SetValue(Logged(get_value(w, s), s, c, "value", v, nullptr), c, v)

\* variant: DispatchFail reading _e after get_exception moved it out
DispatchFail_read_after_move(w, s) ==
  LET c == w.states[s].fail
      e == ReadException(get_exception(w, s), s)
  IN  Runnable_SetException(Logged(get_exception(w, s), s, c, "exc", <<>>, e), c, e)

\* _fail->SetException(get_exception())
DispatchFail(w, s) ==
  LET c == w.states[s].fail
      e == ReadException(w, s)
  IN  Runnable_SetException(Logged(get_exception(w, s), s, c, "exc", <<>>, e), c, e)

\* variant: State_SetValue turning to the failure continuation when no
\* success continuation is registered
State_SetValue_any_slot(w, s, value) ==
  LET w1 == SetState(w, s, [w.states[s] EXCEPT !.st = fulfilled, !.value = value])
  IN  CASE w1.states[s].done # NoRunnable -> DispatchDone(w1, s)
        [] w1.states[s].fail # NoRunnable -> DispatchFail(w1, s)
        [] OTHER -> w1

\* State::SetValue
State_SetValue(w, s, value) ==
  LET w1 == SetState(w, s, [w.states[s] EXCEPT !.st = fulfilled, !.value = value])
  IN  IF w1.states[s].done # NoRunnable THEN DispatchDone(w1, s) ELSE w1

\* variant: State_SetException without the dispatch
State_SetException_store_only(w, s, e) ==
  SetState(w, s, [w.states[s] EXCEPT !.st = rejected, !.e = e])

\* State::SetException
State_SetException(w, s, e) ==
  LET w1 == SetState(w, s, [w.states[s] EXCEPT !.st = rejected, !.e = e])
  IN  IF w1.states[s].fail # NoRunnable THEN DispatchFail(w1, s) ELSE w1

\* variant: State_SetDone without the dispatch
State_SetDone_store_only(w, s, done) ==
  SetState(w, s, [w.states[s] EXCEPT !.done = done])

\* State::SetDone
State_SetDone(w, s, done) ==
  LET w1 == SetState(w, s, [w.states[s] EXCEPT !.done = done])
  IN  IF w1.states[s].st = fulfilled THEN DispatchDone(w1, s) ELSE w1

\* variant: State_SetFail testing _st != pending instead of _st == rejected
State_SetFail_any_settled(w, s, fail) ==
  LET w1 == SetState(w, s, [w.states[s] EXCEPT !.fail = fail])
  IN  IF w1.states[s].st # pending THEN DispatchFail(w1, s) ELSE w1

\* State::SetFail
State_SetFail(w, s, fail) ==
  LET w1 == SetState(w, s, [w.states[s] EXCEPT !.fail = fail])
  IN  IF w1.states[s].st = rejected THEN DispatchFail(w1, s) ELSE w1

\* variant: State_SetFunc without the case status::rejected
State_SetFunc_fulfilled_only(w, s, done, fail) ==
  LET w1 == SetState(w, s, [w.states[s] EXCEPT !.done = done, !.fail = fail])
  IN  IF w1.states[s].st = fulfilled THEN DispatchDone(w1, s) ELSE w1

\* State::SetFunc
State_SetFunc(w, s, done, fail) ==
  LET w1 == SetState(w, s, [w.states[s] EXCEPT !.done = done, !.fail = fail])
  IN  CASE w1.states[s].st = fulfilled -> DispatchDone(w1, s)
        [] w1.states[s].st = rejected  -> DispatchFail(w1, s)
        [] OTHER -> w1

\* State::Reset, the part that writes the State (the deletes are in Reset below)
State_Reset(w, s) ==
  SetState(w, s, [w.states[s] EXCEPT !.st = pending, !.done = NoRunnable,
                                     !.fail = NoRunnable, !.e = nullptr])

\* new ResolverType{...} / new RejecterType{...}
New(w, r) == [w EXCEPT !.conts = Append(@, r)]

----------------------------------------------------------------------------
(* Calls of the public interface *)

NoState == NewState(<<>>)

\* main() is not running
NoInput == [age |-> 0, name |-> "", msgA |-> "", msgB |-> ""]

SettleOps == {"SetValue", "SetException"}
RegisterOps == {"SetDone", "SetFail", "SetFunc"}

\* the record kept in lastCall: the call, the State it was made on as it was
\* before the call (pre; before is the whole heap), and what the call returned; settles counts the settling
\* calls made so far and pendingOnly says that each of them found the State pending
CallRec(op, s, fn, d, f, val, e, rst, rval, re, ret) ==
  [op |-> op, s |-> s, fn |-> fn, d |-> d, f |-> f, val |-> val, e |-> e,
   pre |-> IF s = 0 THEN NoState ELSE states[s], before |-> states,
   rst |-> rst, rval |-> rval, re |-> re, ret |-> ret,
   settles |-> lastCall.settles + (IF op \in SettleOps THEN 1 ELSE 0),
   pendingOnly |-> lastCall.pendingOnly /\
                   (op \in SettleOps => states[s].st = pending)]

NoCall == [op |-> "none", s |-> 0, fn |-> "none", d |-> 0, f |-> 0, val |-> <<>>, e |-> nullptr,
           pre |-> NoState, before |-> <<>>, rst |-> pending, rval |-> <<>>, re |-> nullptr, ret |-> 0,
           settles |-> 0, pendingOnly |-> TRUE]

Commit(w) ==
  /\ states' = w.states
  /\ conts' = w.conts
  /\ log' = w.log
  /\ trace' = w.trace
  /\ asserts' = w.asserts
  /\ deffereds' = w.owned
  /\ calls' = calls + 1

\* the payloads the callers of the model use
Ty == <<"int", "str">>
Bundles == {<<I(100), S("PromiseDemo")>>, <<I(7), S("X")>>}
Errors == {"E1", "E2"}

\* Deffered::SetValue(std::tuple<T...> &&)
Deffered_SetValue(s, value) ==
  /\ calls < MaxCalls
  /\ TypeOf(value) = states[s].ty
  /\ Commit(State_SetValue(World, s, value))
  /\ lastCall' = CallRec("SetValue", s, "none", 0, 0, value, nullptr, pending, <<>>, nullptr, 0)
  /\ UNCHANGED <<freed, handles, pc, input>>

\* Deffered::SetException
Deffered_SetException(s, e) ==
  /\ calls < MaxCalls
  /\ Commit(State_SetException(World, s, e))
  /\ lastCall' = CallRec("SetException", s, "none", 0, 0, <<>>, e, pending, <<>>, nullptr, 0)
  /\ UNCHANGED <<freed, handles, pc, input>>

\* State::SetDone(new Resolver{probe})
Call_SetDone(s) ==
  /\ calls < MaxCalls
  /\ LET d == Len(conts) + 1
         w == New(World, Runnable("Resolver", "probe", FnVoid("probe"), 0))
     IN  /\ Commit(State_SetDone(w, s, d))
         /\ lastCall' = CallRec("SetDone", s, "none", d, 0, <<>>, nullptr, pending, <<>>, nullptr, 0)
  /\ UNCHANGED <<freed, handles, pc, input>>

\* State::SetFail(new Rejecter{probe})
Call_SetFail(s) ==
  /\ calls < MaxCalls
  /\ LET f == Len(conts) + 1
         w == New(World, Runnable("Rejecter", "probe", FnVoid("probe"), 0))
     IN  /\ Commit(State_SetFail(w, s, f))
         /\ lastCall' = CallRec("SetFail", s, "none", 0, f, <<>>, nullptr, pending, <<>>, nullptr, 0)
  /\ UNCHANGED <<freed, handles, pc, input>>

\* State::SetFunc(new Resolver{probe}, new Rejecter{probe})
Call_SetFunc(s) ==
  /\ calls < MaxCalls
  /\ LET d == Len(conts) + 1
         f == Len(conts) + 2
         w == New(New(World, Runnable("Resolver", "probe", FnVoid("probe"), 0)),
                  Runnable("Rejecter", "probe", FnVoid("probe"), 0))
     IN  /\ Commit(State_SetFunc(w, s, d, f))
         /\ lastCall' = CallRec("SetFunc", s, "none", d, f, <<>>, nullptr, pending, <<>>, nullptr, 0)
  /\ UNCHANGED <<freed, handles, pc, input>>

\* variant: GetStatus implemented as a consuming read
Promise_GetStatus_consuming(s) ==
  /\ calls < MaxCalls
  /\ Commit(get_value(World, s))
  /\ lastCall' = CallRec("GetStatus", s, "none", 0, 0, <<>>, nullptr, states[s].st, <<>>, nullptr, 0)
  /\ UNCHANGED <<freed, handles, pc, input>>

\* Promise::GetStatus
Promise_GetStatus(s) ==
  /\ calls < MaxCalls
  /\ Commit(World)
  /\ lastCall' = CallRec("GetStatus", s, "none", 0, 0, <<>>, nullptr, states[s].st, <<>>, nullptr, 0)
  /\ UNCHANGED <<freed, handles, pc, input>>

\* Promise::GetValue
Promise_GetValue(s) ==
  /\ calls < MaxCalls
  /\ Commit(get_value(World, s))
  /\ lastCall' = CallRec("GetValue", s, "none", 0, 0, <<>>, nullptr, pending,
                         ReadValue(World, s), nullptr, 0)
  /\ UNCHANGED <<freed, handles, pc, input>>

\* Promise::GetException
Promise_GetException(s) ==
  /\ calls < MaxCalls
  /\ Commit(get_exception(World, s))
  /\ lastCall' = CallRec("GetException", s, "none", 0, 0, <<>>, nullptr, pending, <<>>,
                         ReadException(World, s), 0)
  /\ UNCHANGED <<freed, handles, pc, input>>

\* Deffered::Reset -> State::Reset: delete _done; delete _fail; then the
\* fields are cleared (deleting a null pointer does nothing)
Deffered_Reset(s) ==
  /\ calls < MaxCalls
  /\ Commit(State_Reset(World, s))
  /\ freed' = freed \o (IF states[s].done # NoRunnable THEN <<states[s].done>> ELSE <<>>)
                    \o (IF states[s].fail # NoRunnable THEN <<states[s].fail>> ELSE <<>>)
  /\ lastCall' = CallRec("Reset", s, "none", 0, 0, <<>>, nullptr, pending, <<>>, nullptr, 0)
  /\ UNCHANGED <<handles, pc, input>>

----------------------------------------------------------------------------
(* Specification Spec: one State driven directly through Deffered, Promise *)
(* inspection and the registration methods of State                        *)

Init ==
  /\ states = <<NewState(Ty)>>
  /\ conts = <<>>
  /\ log = <<>>
  /\ trace = <<>>
  /\ asserts = 0
  /\ freed = <<>>
  /\ calls = 0
  /\ lastCall = NoCall
  /\ handles = {1}
  /\ deffereds = {1}
  /\ pc = [at |-> "none", cur |-> 0]
  /\ input = NoInput

Next ==
  \/ \E s \in deffereds, value \in Bundles : Deffered_SetValue(s, value)
  \/ \E s \in deffereds, e \in Errors : Deffered_SetException(s, e)
  \/ \E s \in deffereds : Deffered_Reset(s)
  \/ \E s \in handles : Call_SetDone(s)
  \/ \E s \in handles : Call_SetFail(s)
  \/ \E s \in handles : Call_SetFunc(s)
  \/ \E s \in handles : Promise_GetStatus(s)
  \/ \E s \in handles : Promise_GetValue(s)
  \/ \E s \in handles : Promise_GetException(s)

Spec == Init /\ [][Next]_vars

----------------------------------------------------------------------------
(* Specification SpecChain: chains built with Then / Exception / Finally on *)
(* a root Deffered the caller settles before, between or after the calls    *)

\* the user functions given to Then, to Exception and to Finally
ThenFns == {FnValue("f_val", <<I(7), S("Y")>>), FnExc("f_exc", Ty, "E_f")}
ExcFns == {FnValue("g_val", <<I(8), S("Z")>>), FnExc("g_exc", Ty, "E_g")}
FinFns == {FnVoid("h")}

\* variant: Then storing its continuations without the dispatch of SetFunc
ThenOn_store_only(w, s, fn) ==
  LET t == Len(w.states) + 1
      d == Len(w.conts) + 1
      f == Len(w.conts) + 2
      w0 == [w EXCEPT !.states = Append(@, NewState(fn.rty))]
      w1 == New(New(w0, Runnable("Resolver", "then_done", fn, t)),
                Runnable("Rejecter", "then_fail", NoFn, t))
  IN  SetState(w1, s, [w1.states[s] EXCEPT !.done = d, !.fail = f])

\* the body of Promise::Then(func) on the stage s: Deffered $;
\* SetFunc(new Resolver{done}, new Rejecter{fail}); $ is the State appended first
ThenOn(w, s, fn) ==
  LET t == Len(w.states) + 1
      d == Len(w.conts) + 1
      f == Len(w.conts) + 2
      w0 == [w EXCEPT !.states = Append(@, NewState(fn.rty))]
      w1 == New(New(w0, Runnable("Resolver", "then_done", fn, t)),
                Runnable("Rejecter", "then_fail", NoFn, t))
  IN  State_SetFunc(w1, s, d, f)

\* the body of Promise::Exception(func) on the stage s: Deffered $;
\* SetFail(new Rejecter{fail})
ExceptionOn(w, s, fn) ==
  LET t == Len(w.states) + 1
      f == Len(w.conts) + 1
      w0 == [w EXCEPT !.states = Append(@, NewState(fn.rty))]
      w1 == New(w0, Runnable("Rejecter", "exc_fail", fn, t))
  IN  State_SetFail(w1, s, f)

\* the body of Promise::Finally(func) on the stage s:
\* SetFunc(new Resolver{done}, new Rejecter{func})
FinallyOn(w, s, fn) ==
  LET d == Len(w.conts) + 1
      f == Len(w.conts) + 2
      w1 == New(New(w, Runnable("Resolver", "fin_done", fn, 0)),
                Runnable("Rejecter", "fin_fail", fn, 0))
  IN  State_SetFunc(w1, s, d, f)

\* Promise::Then(func): Deffered $; SetFunc(new Resolver{done}, new Rejecter{fail});
\* return $.GetPromise()
Then(s, fn) ==
  /\ LET t == Len(states) + 1
         d == Len(conts) + 1
         f == Len(conts) + 2
     IN  /\ Commit(ThenOn(World, s, fn))
         /\ lastCall' = CallRec("Then", s, fn.id, d, f, <<>>, nullptr, pending, <<>>,
                                nullptr, t)
         /\ handles' = handles \cup {t}
  /\ UNCHANGED <<freed>>

\* variant: Exception leaving a failure continuation that is already
\* registered in place
Exception_keep_first(s, fn) ==
  /\ LET t == Len(states) + 1
         f == Len(conts) + 1
         w0 == [World EXCEPT !.states = Append(@, NewState(fn.rty))]
         w == New(w0, Runnable("Rejecter", "exc_fail", fn, t))
     IN  /\ Commit(IF states[s].fail = NoRunnable THEN State_SetFail(w, s, f) ELSE w)
         /\ lastCall' = CallRec("Exception", s, fn.id, 0, f, <<>>, nullptr, pending,
                                <<>>, nullptr, t)
         /\ handles' = handles \cup {t}
  /\ UNCHANGED <<freed>>

\* Promise::Exception(func): Deffered $; SetFail(new Rejecter{fail});
\* return $.GetPromise()
Exception(s, fn) ==
  /\ LET t == Len(states) + 1
         f == Len(conts) + 1
     IN  /\ Commit(ExceptionOn(World, s, fn))
         /\ lastCall' = CallRec("Exception", s, fn.id, 0, f, <<>>, nullptr, pending,
                                <<>>, nullptr, t)
         /\ handles' = handles \cup {t}
  /\ UNCHANGED <<freed>>

\* variant: Finally passing its Rejecter as the success continuation and its
\* Resolver as the failure continuation
Finally_swapped(s, fn) ==
  /\ LET d == Len(conts) + 1
         f == Len(conts) + 2
         w == New(New(World, Runnable("Resolver", "fin_done", fn, 0)),
                  Runnable("Rejecter", "fin_fail", fn, 0))
     IN  /\ Commit(State_SetFunc(w, s, f, d))
         /\ lastCall' = CallRec("Finally", s, fn.id, d, f, <<>>, nullptr, pending, <<>>,
                                nullptr, 0)
  /\ UNCHANGED <<freed, handles>>

\* Promise::Finally(func): SetFunc(new Resolver{done}, new Rejecter{func})
Finally(s, fn) ==
  /\ LET d == Len(conts) + 1
         f == Len(conts) + 2
     IN  /\ Commit(FinallyOn(World, s, fn))
         /\ lastCall' = CallRec("Finally", s, fn.id, d, f, <<>>, nullptr, pending, <<>>,
                                nullptr, 0)
  /\ UNCHANGED <<freed, handles>>

\* the three chaining calls as steps of a caller other than main()
Promise_Then(s, fn) ==
  calls < MaxCalls /\ states[s].ty = Ty /\ Then(s, fn) /\ UNCHANGED <<pc, input>>
Promise_Exception(s, fn) ==
  calls < MaxCalls /\ Exception(s, fn) /\ UNCHANGED <<pc, input>>
Promise_Finally(s, fn) ==
  calls < MaxCalls /\ Finally(s, fn) /\ UNCHANGED <<pc, input>>

NextChain ==
  \/ \E s \in deffereds, value \in Bundles : Deffered_SetValue(s, value)
  \/ \E s \in deffereds, e \in Errors : Deffered_SetException(s, e)
  \/ \E s \in handles, fn \in ThenFns : Promise_Then(s, fn)
  \/ \E s \in handles, fn \in ExcFns : Promise_Exception(s, fn)
  \/ \E s \in handles, fn \in FinFns : Promise_Finally(s, fn)

SpecChain == Init /\ [][NextChain]_vars

----------------------------------------------------------------------------
(* Specification SpecMain: main() of src/unnamed/part_000, one step per     *)
(* call of its chain expression, for several values of its literals         *)

Ages == {100, 7}
Names == {"PromiseDemo", "X"}
MsgsA == {"NonExcep", "E1"}
MsgsB == {"TestString Exception", "E2"}

\* the literals as part_000 has them
Reference ==
  [age |-> 100, name |-> "PromiseDemo", msgA |-> "NonExcep",
   msgB |-> "TestString Exception"]

\* the six lambdas of main(), with their assert statements
L1 == [FnValue("L1", <<I(100), I(200)>>)
         EXCEPT !.chk = ExpectVal(<<I(100), S("PromiseDemo")>>)]
L2 == [FnExc("L2", <<"int">>, input.msgA) EXCEPT !.chk = ExpectVal(<<I(100), I(200)>>)]
L3 == [FnEcho("L3", <<"int">>) EXCEPT !.chk = ExpectNever]
L4 == [FnValue("L4", <<>>) EXCEPT !.chk = ExpectExc("NonExcep")]
L5 == FnExc("L5", <<>>, input.msgB)
L6 == [FnVoid("L6") EXCEPT !.chk = ExpectExc("TestString Exception")]

\* auto fut = async::MakeReadyPromise(std::move(age), std::move(name));
Main_MakeReadyPromise ==
  /\ pc.at = "fut"
  /\ Commit(MakeReadyPromise(World, <<I(input.age), S(input.name)>>))
  /\ lastCall' = CallRec("MakeReadyPromise", 0, "none", 0, 0,
                         <<I(input.age), S(input.name)>>, nullptr, pending, <<>>,
                         nullptr, Len(states) + 1)
  /\ handles' = handles \cup {Len(states) + 1}
  /\ pc' = [at |-> "then1", cur |-> Len(states) + 1]
  /\ UNCHANGED <<freed, input>>

\* fut.Then([](int &&num, std::string &&str) {...})
Main_Then1 ==
  /\ pc.at = "then1"
  /\ Then(pc.cur, L1)
  /\ pc' = [at |-> "then2", cur |-> Len(states) + 1]
  /\ UNCHANGED input

\* .Then([](int &&x, int &&y) {...})
Main_Then2 ==
  /\ pc.at = "then2"
  /\ Then(pc.cur, L2)
  /\ pc' = [at |-> "then3", cur |-> Len(states) + 1]
  /\ UNCHANGED input

\* .Then([](int &&num) {... assert(0); ...})
Main_Then3 ==
  /\ pc.at = "then3"
  /\ Then(pc.cur, L3)
  /\ pc' = [at |-> "exception", cur |-> Len(states) + 1]
  /\ UNCHANGED input

\* .Exception([](std::exception *e) {...})
Main_Exception ==
  /\ pc.at = "exception"
  /\ Exception(pc.cur, L4)
  /\ pc' = [at |-> "then0", cur |-> Len(states) + 1]
  /\ UNCHANGED input

\* .Then([]() {...})
Main_Then0 ==
  /\ pc.at = "then0"
  /\ Then(pc.cur, L5)
  /\ pc' = [at |-> "finally", cur |-> Len(states) + 1]
  /\ UNCHANGED input

\* .Finally([](std::exception *e) {...}); return 0;
Main_Finally ==
  /\ pc.at = "finally"
  /\ Finally(pc.cur, L6)
  /\ pc' = [at |-> "done", cur |-> 0]
  /\ UNCHANGED input

InitMain ==
  /\ states = <<>>
  /\ conts = <<>>
  /\ log = <<>>
  /\ trace = <<>>
  /\ asserts = 0
  /\ freed = <<>>
  /\ calls = 0
  /\ lastCall = NoCall
  /\ handles = {}
  /\ deffereds = {}
  /\ pc = [at |-> "fut", cur |-> 0]
  /\ input \in [age : Ages, name : Names, msgA : MsgsA, msgB : MsgsB]

NextMain ==
  \/ Main_MakeReadyPromise
  \/ Main_Then1
  \/ Main_Then2
  \/ Main_Then3
  \/ Main_Exception
  \/ Main_Then0
  \/ Main_Finally

SpecMain == InitMain /\ [][NextMain]_vars

----------------------------------------------------------------------------
(* Properties of Spec *)

\* the dispatches and the user function calls made inside call number k
LogOf(k) == SelectSeq(log, LAMBDA x : x.call = k)
TraceOf(k) == SelectSeq(trace, LAMBDA x : x.call = k)
\* how often the Runnable c was invoked
Invocations(c) == Cardinality({i \in DOMAIN log : log[i].cont = c})

NoConts(st) == st.done = NoRunnable /\ st.fail = NoRunnable

\* C1: single consumption by direct inspection. On a State without
\* continuations settled by SetValue(B) (SetException(E)) the first GetValue
\* (GetException) returns B (E) and leaves the status pending; a second read
\* observes pending and the moved-out payload: GetException returns null and
\* GetValue returns the bundle the first read moved from (std::string
\* elements emptied, int elements as a move leaves them, unchanged).
C1_SingleConsumption ==
  [][ /\ ( /\ lastCall.op = "SetValue"
           /\ NoConts(lastCall.pre)
           /\ Promise_GetValue(lastCall.s) )
         => /\ lastCall'.rval = lastCall.val
            /\ states'[lastCall.s].st = pending
      /\ ( /\ lastCall.op = "SetException"
           /\ NoConts(lastCall.pre)
           /\ Promise_GetException(lastCall.s) )
         => /\ lastCall'.re = lastCall.e
            /\ states'[lastCall.s].st = pending
      /\ ( /\ lastCall.op = "GetValue"
           /\ lastCall.pre.st = fulfilled
           /\ NoConts(lastCall.pre)
           /\ Promise_GetValue(lastCall.s) )
         => /\ states[lastCall.s].st = pending
            /\ states'[lastCall.s].st = pending
            /\ \A i \in DOMAIN lastCall.rval :
                 lastCall'.rval[i] = IF IsInt(lastCall.rval[i]) THEN lastCall.rval[i]
                                                              ELSE S("")
      /\ ( /\ lastCall.op = "GetException"
           /\ lastCall.pre.st = rejected
           /\ NoConts(lastCall.pre)
           /\ Promise_GetException(lastCall.s) )
         => /\ states[lastCall.s].st = pending
            /\ states'[lastCall.s].st = pending
            /\ lastCall'.re = nullptr ]_vars

\* C1 witness: a second GetValue right after the first read of a settled
\* State returned an int that the first read had returned as well
C1_Witness ==
  /\ lastCall.op = "GetValue"
  /\ lastCall.pre.st = pending
  /\ lastCall.settles = 1
  /\ calls = 3
  /\ NoConts(lastCall.pre)
  /\ lastCall.rval = <<I(100), S("")>>

\* C2: immediate dispatch. A success continuation registered (SetDone, SetFunc)
\* on a State fulfilled with B is invoked exactly once, with B, inside the
\* registering call; a failure continuation registered (SetFail, SetFunc) on a
\* rejected State is invoked exactly once with the stored payload.
C2_ImmediateDispatch ==
  /\ ( lastCall.op \in {"SetDone", "SetFunc"} /\ lastCall.pre.st = fulfilled )
       => /\ LogOf(calls) = << [s |-> lastCall.s, cont |-> lastCall.d, side |-> "value",
                                val |-> lastCall.pre.value, e |-> nullptr,
                                call |-> calls] >>
          /\ TraceOf(calls) = << [fn |-> "probe", cont |-> lastCall.d, sig |-> "value",
                                  val |-> lastCall.pre.value, e |-> nullptr,
                                  call |-> calls] >>
  /\ ( lastCall.op \in {"SetFail", "SetFunc"} /\ lastCall.pre.st = rejected )
       => /\ LogOf(calls) = << [s |-> lastCall.s, cont |-> lastCall.f, side |-> "exc", val |-> <<>>,
                                e |-> lastCall.pre.e, call |-> calls] >>
          /\ TraceOf(calls) = << [fn |-> "probe", cont |-> lastCall.f, sig |-> "exc",
                                  val |-> <<>>, e |-> lastCall.pre.e,
                                  call |-> calls] >>

\* C2 witness: SetDone on a State fulfilled with (100, "PromiseDemo") ran the
\* continuation with that bundle
C2_Witness ==
  /\ lastCall.op = "SetDone"
  /\ lastCall.pre.st = fulfilled
  /\ lastCall.pre.value = <<I(100), S("PromiseDemo")>>
  /\ Len(trace) = 1
  /\ trace[1].val = <<I(100), S("PromiseDemo")>>

\* C3: deferred dispatch. Registering on a pending State invokes nothing; a
\* SetValue (SetException) on a State holding a success (failure) continuation
\* invokes that continuation exactly once, with the payload of the call,
\* inside the settling call.
C3_DeferredDispatch ==
  /\ ( lastCall.op \in RegisterOps /\ lastCall.pre.st = pending )
       => LogOf(calls) = <<>> /\ TraceOf(calls) = <<>>
  /\ ( lastCall.op = "SetValue" /\ lastCall.pre.done # NoRunnable )
       => /\ LogOf(calls) = << [s |-> lastCall.s, cont |-> lastCall.pre.done, side |-> "value",
                                val |-> lastCall.val, e |-> nullptr,
                                call |-> calls] >>
          /\ TraceOf(calls) = << [fn |-> "probe", cont |-> lastCall.pre.done,
                                  sig |-> "value", val |-> lastCall.val,
                                  e |-> nullptr, call |-> calls] >>
  /\ ( lastCall.op = "SetException" /\ lastCall.pre.fail # NoRunnable )
       => /\ LogOf(calls) = << [s |-> lastCall.s, cont |-> lastCall.pre.fail, side |-> "exc",
                                val |-> <<>>, e |-> lastCall.e, call |-> calls] >>
          /\ TraceOf(calls) = << [fn |-> "probe", cont |-> lastCall.pre.fail,
                                  sig |-> "exc", val |-> <<>>, e |-> lastCall.e,
                                  call |-> calls] >>

\* C3 witness: a failure continuation registered on the pending State was not
\* run by the registration and was run by the SetException that followed
C3_Witness ==
  /\ calls = 2
  /\ lastCall.op = "SetException"
  /\ lastCall.pre.st = pending
  /\ lastCall.pre.fail = 1
  /\ LogOf(1) = <<>>
  /\ Len(LogOf(2)) = 1

\* C9 as stated: if every settling call found the State pending, every
\* registered continuation was invoked at most once.
C9_Original ==
  lastCall.pendingOnly => \A c \in DOMAIN conts : Invocations(c) <= 1

\* C9 amended: a continuation is invoked at most once per settlement. The
\* dispatches never outnumber the settling calls, so with at most one settling
\* call every registered continuation is invoked at most once; and a dispatch
\* happens inside a registering call of that continuation on a settled State
\* or inside a settling call on a State that already held it. (A State is
\* pending again once its payload is consumed, and a second settling call
\* invokes the continuation still registered a second time.)
C9_AtMostOncePerSettlement ==
  /\ Len(log) <= lastCall.settles
  /\ lastCall.settles <= 1 => \A c \in DOMAIN conts : Invocations(c) <= 1
  /\ Len(LogOf(calls)) <= 1
  /\ \A i \in DOMAIN log : log[i].call = calls =>
       \/ /\ lastCall.op \in RegisterOps
          /\ log[i].cont \in {lastCall.d, lastCall.f}
          /\ lastCall.pre.st # pending
       \/ /\ lastCall.op \in SettleOps
          /\ log[i].cont \in {lastCall.pre.done, lastCall.pre.fail}

\* C9 witness: one settlement, registration first, the continuation ran once
\* inside the settling call
C9_Witness ==
  /\ lastCall.op = "SetValue"
  /\ lastCall.settles = 1
  /\ lastCall.pendingOnly
  /\ lastCall.pre.done # NoRunnable
  /\ Invocations(lastCall.pre.done) = 1

----------------------------------------------------------------------------
(* Properties of SpecChain *)

\* which lambda the Runnable c wraps; c may be a null pointer
IsKind(c, k) == c # NoRunnable /\ conts[c].k = k

\* the calls of user functions made by the Runnable c inside call number k
TraceAt(c, k) == SelectSeq(trace, LAMBDA x : x.cont = c /\ x.call = k)

\* the outcome handed to the stage t by the dispatch log[i] of the last call:
\* either t holds it (nothing was registered for it on t) or t dispatched it
\* at once to its own continuation, which is the next entry of the log
Delivered(i, t, side, val, e) ==
  \/ /\ i = Len(log)
     /\ states[t].st = (IF side = "value" THEN fulfilled ELSE rejected)
     /\ side = "value" => states[t].value = val
     /\ side = "exc" => states[t].e = e
  \/ /\ i < Len(log)
     /\ log[i + 1].s = t
     /\ log[i + 1].side = side
     /\ log[i + 1].val = val
     /\ log[i + 1].e = e
     /\ log[i + 1].call = log[i].call

\* the first dispatch of the last call
FirstOfCall == LogOf(calls)[1]

\* C4: Then passes a rejection through. A stage's rejection with payload E
\* that reaches the Then registered on it (Then called on the rejected stage,
\* or the stage rejected while holding Then's continuations) rejects the new
\* stage with the same E and does not call f; stage after stage, the
\* Exception or Finally that follows receives E unchanged.
C4_ThenPassesRejection ==
  /\ ( lastCall.op = "Then" /\ lastCall.pre.st = rejected )
       => /\ LogOf(calls) = << [s |-> lastCall.s, cont |-> lastCall.f, side |-> "exc",
                                val |-> <<>>, e |-> lastCall.pre.e, call |-> calls] >>
          /\ TraceOf(calls) = <<>>
          /\ states[lastCall.ret].st = rejected
          /\ states[lastCall.ret].e = lastCall.pre.e
  /\ ( lastCall.op = "SetException" /\ IsKind(lastCall.pre.fail, "then_fail") )
       => FirstOfCall = [s |-> lastCall.s, cont |-> lastCall.pre.fail, side |-> "exc",
                         val |-> <<>>, e |-> lastCall.e, call |-> calls]
  /\ \A i \in DOMAIN log :
       ( log[i].call = calls /\ IsKind(log[i].cont, "then_fail") )
         => /\ log[i].side = "exc"
            /\ Delivered(i, conts[log[i].cont].tgt, "exc", <<>>, log[i].e)
            /\ TraceAt(log[i].cont, calls) = <<>>
            /\ TraceAt(log[i].cont - 1, calls) = <<>>
  /\ \A i \in DOMAIN log :
       ( log[i].call = calls /\ ( IsKind(log[i].cont, "exc_fail")
                                  \/ IsKind(log[i].cont, "fin_fail") ) )
         => /\ Len(TraceAt(log[i].cont, calls)) = 1
            /\ TraceAt(log[i].cont, calls)[1].e = log[i].e

\* C4 witness: the root rejected with E1 after Then, Then, Finally were
\* chained; E1 went through both Then stages and Finally's function got it
C4_Witness ==
  /\ lastCall.op = "SetException"
  /\ lastCall.e = "E1"
  /\ Len(log) = 3
  /\ IsKind(log[1].cont, "then_fail")
  /\ IsKind(log[2].cont, "then_fail")
  /\ IsKind(log[3].cont, "fin_fail")
  /\ Len(trace) = 1
  /\ trace[1].fn = "h"
  /\ trace[1].e = "E1"

\* C5: Exception does not propagate fulfillment. Exception(g) called on a
\* fulfilled stage, or a stage fulfilled while it holds Exception's
\* continuation, does not call g and leaves the new stage pending; g is only
\* ever called for a rejection, and as long as it was not called the new
\* stage is pending and no continuation chained after it was invoked.
C5_ExceptionDropsFulfillment ==
  /\ ( lastCall.op = "Exception" /\ lastCall.pre.st = fulfilled )
       => /\ LogOf(calls) = <<>>
          /\ TraceOf(calls) = <<>>
          /\ states[lastCall.ret].st = pending
          /\ states[lastCall.s].st = fulfilled
  /\ ( lastCall.op = "SetValue" /\ IsKind(lastCall.pre.fail, "exc_fail") )
       => /\ TraceAt(lastCall.pre.fail, calls) = <<>>
          /\ \A i \in DOMAIN log : log[i].call = calls => log[i].cont # lastCall.pre.fail
          /\ states[conts[lastCall.pre.fail].tgt] =
               lastCall.before[conts[lastCall.pre.fail].tgt]
          /\ lastCall.pre.done = NoRunnable
               => LogOf(calls) = <<>> /\ states[lastCall.s].st = fulfilled
  /\ \A c \in DOMAIN conts :
       conts[c].k = "exc_fail"
         => /\ \A i \in DOMAIN log : log[i].cont = c => log[i].side = "exc"
            /\ Invocations(c) = 0
                 => /\ \A j \in DOMAIN trace : trace[j].cont # c
                    /\ states[conts[c].tgt].st = pending
                    /\ \A i \in DOMAIN log : log[i].s # conts[c].tgt

\* C5 witness: Exception was called on the root and a Then chained on the
\* new stage; the root was then fulfilled and nothing ran
C5_Witness ==
  /\ calls = 3
  /\ lastCall.op = "SetValue"
  /\ IsKind(lastCall.pre.fail, "exc_fail")
  /\ states[2].done # NoRunnable
  /\ IsKind(states[2].done, "then_done")
  /\ states[1].st = fulfilled
  /\ states[2].st = pending
  /\ log = <<>>
  /\ trace = <<>>

\* the function h of a Finally was called this often through its pair of
\* continuations (d, d + 1)
FinallyCalls(d) ==
  Cardinality({j \in DOMAIN trace : trace[j].cont \in {d, d + 1}})

\* C6: Finally always fires exactly once. Finally(h) called on a settled
\* stage, or a stage settled while it holds Finally's continuations, calls h
\* once inside that call, with null for a fulfillment and with the payload
\* for a rejection; a stage holding Finally's success continuation never
\* keeps an outcome undelivered, and with one settlement h is called at most
\* once.
C6_FinallyFiresOnce ==
  /\ ( lastCall.op = "Finally" /\ lastCall.pre.st = fulfilled )
       => TraceOf(calls) = << [fn |-> lastCall.fn, cont |-> lastCall.d, sig |-> "exc",
                               val |-> <<>>, e |-> nullptr, call |-> calls] >>
  /\ ( lastCall.op = "Finally" /\ lastCall.pre.st = rejected )
       => TraceOf(calls) = << [fn |-> lastCall.fn, cont |-> lastCall.f, sig |-> "exc",
                               val |-> <<>>, e |-> lastCall.pre.e, call |-> calls] >>
  /\ ( lastCall.op = "SetValue" /\ IsKind(lastCall.pre.done, "fin_done") )
       => TraceOf(calls) = << [fn |-> conts[lastCall.pre.done].fn.id,
                               cont |-> lastCall.pre.done, sig |-> "exc",
                               val |-> <<>>, e |-> nullptr, call |-> calls] >>
  /\ ( lastCall.op = "SetException" /\ IsKind(lastCall.pre.fail, "fin_fail") )
       => TraceOf(calls) = << [fn |-> conts[lastCall.pre.fail].fn.id,
                               cont |-> lastCall.pre.fail, sig |-> "exc",
                               val |-> <<>>, e |-> lastCall.e, call |-> calls] >>
  /\ \A i \in DOMAIN log :
       /\ IsKind(log[i].cont, "fin_done")
            => TraceAt(log[i].cont, log[i].call) =
                 << [fn |-> conts[log[i].cont].fn.id, cont |-> log[i].cont,
                     sig |-> "exc", val |-> <<>>, e |-> nullptr,
                     call |-> log[i].call] >>
       /\ IsKind(log[i].cont, "fin_fail")
            => TraceAt(log[i].cont, log[i].call) =
                 << [fn |-> conts[log[i].cont].fn.id, cont |-> log[i].cont,
                     sig |-> "exc", val |-> <<>>, e |-> log[i].e,
                     call |-> log[i].call] >>
  /\ \A s \in DOMAIN states :
       IsKind(states[s].done, "fin_done") => states[s].st = pending
  /\ lastCall.settles <= 1
       => \A d \in DOMAIN conts : conts[d].k = "fin_done" => FinallyCalls(d) <= 1

\* C6 witness: Finally was chained after a Then on the root, the root was
\* rejected once with E1, and h was called once, with E1
C6_Witness ==
  /\ lastCall.op = "SetException"
  /\ lastCall.settles = 1
  /\ lastCall.e = "E1"
  /\ Len(log) = 2
  /\ IsKind(log[2].cont, "fin_fail")
  /\ FinallyCalls(log[2].cont - 1) = 1
  /\ trace = << [fn |-> "h", cont |-> log[2].cont, sig |-> "exc", val |-> <<>>,
                 e |-> "E1", call |-> calls] >>

\* C7: Then flattens the result of f. A fulfillment with B that reaches the
\* Then registered on the stage calls f exactly once, with B, and the new
\* stage takes the outcome of the ready facade f returned: fulfilled with its
\* bundle, or rejected with its payload.
C7_ThenFlattens ==
  /\ ( lastCall.op = "Then" /\ lastCall.pre.st = fulfilled )
       => FirstOfCall = [s |-> lastCall.s, cont |-> lastCall.d, side |-> "value",
                         val |-> lastCall.pre.value, e |-> nullptr, call |-> calls]
  /\ ( lastCall.op = "SetValue" /\ IsKind(lastCall.pre.done, "then_done") )
       => FirstOfCall = [s |-> lastCall.s, cont |-> lastCall.pre.done, side |-> "value",
                         val |-> lastCall.val, e |-> nullptr, call |-> calls]
  /\ \A i \in DOMAIN log :
       ( log[i].call = calls /\ IsKind(log[i].cont, "then_done") )
         => LET c == log[i].cont
                fn == conts[c].fn
            IN  /\ TraceAt(c, calls) = << [fn |-> fn.id, cont |-> c, sig |-> "value",
                                           val |-> log[i].val, e |-> nullptr,
                                           call |-> calls] >>
                /\ fn.k = "value" => Delivered(i, conts[c].tgt, "value", fn.v, nullptr)
                /\ fn.k = "exc" => Delivered(i, conts[c].tgt, "exc", <<>>, fn.e)

\* C7 witness: Then(f_val) on the root, the root fulfilled with
\* (100, "PromiseDemo"): f_val ran with it and the new stage holds (7, "Y")
C7_Witness ==
  /\ calls = 2
  /\ lastCall.op = "SetValue"
  /\ Len(trace) = 1
  /\ trace[1].fn = "f_val"
  /\ trace[1].val = <<I(100), S("PromiseDemo")>>
  /\ states[2].st = fulfilled
  /\ states[2].value = <<I(7), S("Y")>>

\* C8: Exception recovers from a rejection. A rejection with E that reaches
\* the Exception registered on the stage calls g exactly once, with E, and
\* the new stage takes the outcome of the ready facade g returned; when g
\* returned a ready value, the Then chained on the new stage runs with it.
C8_ExceptionRecovers ==
  /\ ( lastCall.op = "Exception" /\ lastCall.pre.st = rejected )
       => FirstOfCall = [s |-> lastCall.s, cont |-> lastCall.f, side |-> "exc",
                         val |-> <<>>, e |-> lastCall.pre.e, call |-> calls]
  /\ ( lastCall.op = "SetException" /\ IsKind(lastCall.pre.fail, "exc_fail") )
       => FirstOfCall = [s |-> lastCall.s, cont |-> lastCall.pre.fail, side |-> "exc",
                         val |-> <<>>, e |-> lastCall.e, call |-> calls]
  /\ \A i \in DOMAIN log :
       ( log[i].call = calls /\ IsKind(log[i].cont, "exc_fail") )
         => LET c == log[i].cont
                fn == conts[c].fn
                t == conts[c].tgt
            IN  /\ TraceAt(c, calls) = << [fn |-> fn.id, cont |-> c, sig |-> "exc",
                                           val |-> <<>>, e |-> log[i].e,
                                           call |-> calls] >>
                /\ fn.k = "value" => Delivered(i, t, "value", fn.v, nullptr)
                /\ fn.k = "exc" => Delivered(i, t, "exc", <<>>, fn.e)
                /\ ( /\ fn.k = "value"
                     /\ t \in DOMAIN lastCall.before
                     /\ IsKind(lastCall.before[t].done, "then_done") )
                     => /\ Len(TraceAt(lastCall.before[t].done, calls)) = 1
                        /\ TraceAt(lastCall.before[t].done, calls)[1].val = fn.v

\* C8 witness: Exception(g_val) and a Then were chained on the root, the root
\* was rejected with E1: g_val ran with E1 and then the Then's function ran
\* with the bundle g_val returned
C8_Witness ==
  /\ calls = 3
  /\ lastCall.op = "SetException"
  /\ lastCall.e = "E1"
  /\ Len(trace) = 2
  /\ trace[1].fn = "g_val"
  /\ trace[1].e = "E1"
  /\ trace[2].sig = "value"
  /\ trace[2].val = <<I(8), S("Z")>>

----------------------------------------------------------------------------
(* Properties of SpecMain *)

\* the calls of user functions main() is expected to make, in order, each
\* with the call of the chain expression it runs in
Expected ==
  << [fn |-> "L1", sig |-> "value", val |-> <<I(input.age), S(input.name)>>,
      e |-> nullptr, call |-> 2],
     [fn |-> "L2", sig |-> "value", val |-> <<I(100), I(200)>>,
      e |-> nullptr, call |-> 3],
     [fn |-> "L4", sig |-> "exc", val |-> <<>>, e |-> input.msgA, call |-> 5],
     [fn |-> "L5", sig |-> "value", val |-> <<>>, e |-> nullptr, call |-> 6],
     [fn |-> "L6", sig |-> "exc", val |-> <<>>, e |-> input.msgB, call |-> 7] >>

\* the calls of user functions made so far
Made ==
  [j \in DOMAIN trace |->
     [fn |-> trace[j].fn, sig |-> trace[j].sig, val |-> trace[j].val,
      e |-> trace[j].e, call |-> trace[j].call]]

\* C10: the reference chain. The bodies run in chain order, each inside the
\* chaining call that registers it; the third Then body never runs; the
\* Exception body sees the payload the second Then returned ("NonExcep"); the
\* zero-arity Then body runs exactly once; Finally's function is called
\* exactly once, with a non-null error equal to the payload the zero-arity
\* Then returned ("TestString Exception"); with the literals of part_000 no
\* assert fails.
C10_ReferenceChain ==
  /\ Len(Made) <= Len(Expected)
  /\ \A j \in DOMAIN Made : Made[j] = Expected[j]
  /\ \A j \in DOMAIN trace : trace[j].fn # "L3"
  /\ \A j \in DOMAIN trace : trace[j].call = calls => pc.at # "exception"
  /\ pc.at = "done"
       => /\ Len(Made) = 5
          /\ Cardinality({j \in DOMAIN trace : trace[j].fn = "L5"}) = 1
          /\ Cardinality({j \in DOMAIN trace : trace[j].fn = "L6"}) = 1
          /\ trace[5].e # nullptr
          /\ input = Reference
               => /\ trace[3].e = "NonExcep"
                  /\ trace[5].e = "TestString Exception"
                  /\ asserts = 0

\* C10 witness: main() with the literals of part_000 has returned
C10_Witness ==
  /\ pc.at = "done"
  /\ input = Reference
  /\ Len(trace) = 5
  /\ trace[5].fn = "L6"
  /\ trace[5].e = "TestString Exception"
  /\ asserts = 0

----------------------------------------------------------------------------
(* Ownership of continuations and settlement preconditions (Spec)          *)

\* the Runnable c is held in a slot of some State
Held(c) == \E s \in DOMAIN states : states[s].done = c \/ states[s].fail = c
\* how often the Runnable c was deleted
Releases(c) == Cardinality({i \in DOMAIN freed : freed[i] = c})

\* C11: no leaked continuation on replacement. In every reachable state each
\* continuation that was ever registered is either held in a slot of its
\* State or has been released exactly once (a registration over an occupied
\* slot releases the continuation it replaces).
C11_NoLeakOnReplacement ==
  \A c \in DOMAIN conts :
    \/ Held(c) /\ Releases(c) = 0
    \/ ~Held(c) /\ Releases(c) = 1

\* C12: double settlement is signalled. SetValue or SetException on a State
\* whose status is fulfilled or rejected fails a precondition check and
\* leaves the status and the payload of the first settlement as they were.
C12_DoubleSettlementSignalled ==
  ( lastCall.op \in SettleOps /\ lastCall.pre.st # pending )
    => /\ asserts > 0
       /\ states[lastCall.s].st = lastCall.pre.st
       /\ states[lastCall.s].value = lastCall.pre.value
       /\ states[lastCall.s].e = lastCall.pre.e

\* C16: Reset returns the State to its initial condition. After Reset the
\* status is pending, neither slot holds a continuation, each continuation
\* the State held has been released exactly once, and the stored value bundle
\* and the stored error are cleared.
C16_ResetToInitial ==
  lastCall.op = "Reset"
    => /\ states[lastCall.s].st = pending
       /\ NoConts(states[lastCall.s])
       /\ \A c \in {lastCall.pre.done, lastCall.pre.fail} \ {NoRunnable} : Releases(c) = 1
       /\ states[lastCall.s].e = nullptr
       /\ states[lastCall.s].value = DefaultOf(states[lastCall.s].ty)

\* C13: dispatch consumes the settlement. After a call that dispatched a
\* continuation on a State (the registering call on a settled State, or the
\* settling call on a State holding the continuation) the State's status is
\* pending and the payload that was dispatched is the moved-out one (null
\* error, bundle moved from; the field of the other kind is left as it was);
\* a GetStatus that follows returns pending and a registration that follows
\* invokes nothing.
C13_DispatchConsumes ==
  /\ [] ( LogOf(calls) # <<>>
            => /\ states[lastCall.s].st = pending
               /\ FirstOfCall.side = "value"
                    => /\ states[lastCall.s].value = MovedFrom(FirstOfCall.val)
                       /\ states[lastCall.s].e = lastCall.pre.e
               /\ FirstOfCall.side = "exc"
                    => /\ states[lastCall.s].e = nullptr
                       /\ states[lastCall.s].value = lastCall.pre.value )
  /\ [][ LogOf(calls) # <<>>
           => /\ Promise_GetStatus(lastCall.s) => lastCall'.rst = pending
              /\ ( \/ Call_SetDone(lastCall.s)
                   \/ Call_SetFail(lastCall.s)
                   \/ Call_SetFunc(lastCall.s) )
                 => log' = log /\ trace' = trace ]_vars

\* C13 witness: a continuation registered after the dispatch of
\* (100, "PromiseDemo") was not invoked, and the State is pending with the
\* bundle moved from
C13_Witness ==
  /\ calls = 3
  /\ lastCall.op = "SetDone"
  /\ Len(log) = 1
  /\ log[1].call = 2
  /\ log[1].val = <<I(100), S("PromiseDemo")>>
  /\ states[1].st = pending
  /\ states[1].value = <<I(100), S("")>>
  /\ states[1].done = lastCall.d

\* C14: one-sided registration. A SetValue(B) on a State holding only a
\* failure continuation dispatches nothing and leaves the State fulfilled
\* with B, and a SetDone that follows dispatches B at once; symmetrically a
\* SetException(E) on a State holding only a success continuation leaves it
\* rejected with E, and a SetFail that follows dispatches E at once.
C14_OneSidedRegistration ==
  /\ [] ( /\ ( /\ lastCall.op = "SetValue"
               /\ lastCall.pre.done = NoRunnable
               /\ lastCall.pre.fail # NoRunnable )
             => /\ LogOf(calls) = <<>> /\ TraceOf(calls) = <<>>
                /\ states[lastCall.s] = [lastCall.pre EXCEPT !.st = fulfilled,
                                                             !.value = lastCall.val]
          /\ ( /\ lastCall.op = "SetException"
               /\ lastCall.pre.fail = NoRunnable
               /\ lastCall.pre.done # NoRunnable )
             => /\ LogOf(calls) = <<>> /\ TraceOf(calls) = <<>>
                /\ states[lastCall.s] = [lastCall.pre EXCEPT !.st = rejected,
                                                             !.e = lastCall.e] )
  /\ [][ /\ ( /\ lastCall.op = "SetValue"
              /\ lastCall.pre.done = NoRunnable
              /\ lastCall.pre.fail # NoRunnable
              /\ Call_SetDone(lastCall.s) )
            => /\ Len(log') = Len(log) + 1
               /\ log'[Len(log')].cont = lastCall'.d
               /\ log'[Len(log')].val = lastCall.val
               /\ trace'[Len(trace')].val = lastCall.val
         /\ ( /\ lastCall.op = "SetException"
              /\ lastCall.pre.fail = NoRunnable
              /\ lastCall.pre.done # NoRunnable
              /\ Call_SetFail(lastCall.s) )
            => /\ Len(log') = Len(log) + 1
               /\ log'[Len(log')].cont = lastCall'.f
               /\ log'[Len(log')].e = lastCall.e
               /\ trace'[Len(trace')].e = lastCall.e ]_vars

\* C14 witness: SetFail, SetValue((7, "X")), SetDone: the only dispatch is the
\* one of SetDone, with (7, "X")
C14_Witness ==
  /\ calls = 3
  /\ lastCall.op = "SetDone"
  /\ states[1].fail = 1
  /\ conts[1].cls = "Rejecter"
  /\ Len(log) = 1
  /\ log[1] = [s |-> 1, cont |-> 2, side |-> "value", val |-> <<I(7), S("X")>>,
               e |-> nullptr, call |-> 3]
  /\ Invocations(1) = 0

\* C20: a read of the other kind consumes. GetException on a fulfilled State
\* (GetValue on a rejected State) sets the status to pending, returns the
\* stored error (bundle) and not the payload of the outcome, which stays in
\* the State undelivered; a success (failure) continuation registered next is
\* not invoked. GetStatus returns the status and changes nothing.
C20_OtherKindReadConsumes ==
  /\ [] ( /\ ( lastCall.op = "GetException" /\ lastCall.pre.st = fulfilled )
             => /\ states[lastCall.s] = [lastCall.pre EXCEPT !.st = pending, !.e = nullptr]
                /\ lastCall.re = lastCall.pre.e
          /\ ( lastCall.op = "GetValue" /\ lastCall.pre.st = rejected )
             => /\ states[lastCall.s] = [lastCall.pre EXCEPT !.st = pending,
                                                             !.value = MovedFrom(@)]
                /\ lastCall.rval = lastCall.pre.value
          /\ lastCall.op = "GetStatus"
             => /\ states = lastCall.before
                /\ lastCall.rst = lastCall.pre.st
                /\ LogOf(calls) = <<>> )
  /\ [][ /\ ( /\ lastCall.op = "GetException"
              /\ lastCall.pre.st = fulfilled
              /\ (Call_SetDone(lastCall.s) \/ Call_SetFunc(lastCall.s)) )
            => log' = log /\ trace' = trace
         /\ ( /\ lastCall.op = "GetValue"
              /\ lastCall.pre.st = rejected
              /\ (Call_SetFail(lastCall.s) \/ Call_SetFunc(lastCall.s)) )
            => log' = log /\ trace' = trace ]_vars

\* C20 witness: SetException(E1), GetValue, SetFail: the read left the State
\* pending with E1 still stored, and the failure continuation registered
\* next was not invoked
C20_Witness ==
  /\ calls = 3
  /\ lastCall.op = "SetFail"
  /\ lastCall.settles = 1
  /\ lastCall.pre.st = pending
  /\ lastCall.pre.e = "E1"
  /\ log = <<>> /\ trace = <<>>
  /\ states[1].fail = 1
  /\ states[1].st = pending
  /\ states[1].e = "E1"

----------------------------------------------------------------------------
(* Replacement of continuations (SpecChain) *)

ChainOps == {"Then", "Exception", "Finally"}

\* the Runnables whose adapter settles the stage t
SettlersOf(t) == {c \in DOMAIN conts : conts[c].tgt = t}

\* the stage t is as its Deffered $ was constructed, but for its slots
Untouched(t) ==
  /\ states[t].st = pending
  /\ states[t].value = DefaultOf(states[t].ty)
  /\ states[t].e = nullptr
  /\ \A i \in DOMAIN log : log[i].s # t

----------------------------------------------------------------------------
(* Specification SpecFacade: every call of the public interface, the       *)
(* factories included, in any order                                        *)

\* auto fut = MakeReadyPromise(values...) called by the user
Factory_MakeReadyPromise(value) ==
  /\ calls < MaxCalls
  /\ Commit(MakeReadyPromise(World, value))
  /\ lastCall' = CallRec("MakeReadyPromise", 0, "none", 0, 0, value, nullptr, pending,
                         <<>>, nullptr, Len(states) + 1)
  /\ handles' = handles \cup {Len(states) + 1}
  /\ UNCHANGED <<freed, pc, input>>

\* auto fut = MakeException<T...>(e) called by the user
Factory_MakeException(e) ==
  /\ calls < MaxCalls
  /\ Commit(MakeException(World, Ty, e))
  /\ lastCall' = CallRec("MakeException", 0, "none", 0, 0, <<>>, e, pending, <<>>,
                         nullptr, Len(states) + 1)
  /\ handles' = handles \cup {Len(states) + 1}
  /\ UNCHANGED <<freed, pc, input>>

NextFacade ==
  \/ \E value \in Bundles : Factory_MakeReadyPromise(value)
  \/ \E e \in Errors : Factory_MakeException(e)
  \/ \E s \in deffereds, value \in Bundles : Deffered_SetValue(s, value)
  \/ \E s \in deffereds, e \in Errors : Deffered_SetException(s, e)
  \/ \E s \in handles, fn \in ThenFns : Promise_Then(s, fn)
  \/ \E s \in handles, fn \in ExcFns : Promise_Exception(s, fn)
  \/ \E s \in handles, fn \in FinFns : Promise_Finally(s, fn)

SpecFacade == Init /\ [][NextFacade]_vars

\* C17: the wrong-side assertions are unreachable through the public
\* interface. Whatever MakeReadyPromise / MakeException / Then / Exception /
\* Finally / Deffered::SetValue / Deffered::SetException calls were made, the
\* success slot of every State holds nothing or a Resolver, the failure slot
\* nothing or a Rejecter, every value dispatch went to a Resolver and every
\* error dispatch to a Rejecter, and no assert(0) of Resolver::SetException
\* or Rejecter::SetValue was reached.
C17_WrongSideUnreachable ==
  /\ asserts = 0
  /\ \A s \in DOMAIN states :
       /\ states[s].done # NoRunnable => conts[states[s].done].cls = "Resolver"
       /\ states[s].fail # NoRunnable => conts[states[s].fail].cls = "Rejecter"
  /\ \A i \in DOMAIN log :
       /\ log[i].side = "value" => conts[log[i].cont].cls = "Resolver"
       /\ log[i].side = "exc" => conts[log[i].cont].cls = "Rejecter"

\* C17 witness: on a facade made by MakeReadyPromise, Then(f_exc) was
\* dispatched to its Resolver and the Finally on the rejected stage to its
\* Rejecter
C17_Witness ==
  /\ calls = 3
  /\ lastCall.op = "Finally"
  /\ Len(log) = 2
  /\ log[1].s = 2 /\ log[1].side = "value" /\ conts[log[1].cont].k = "then_done"
  /\ log[2].side = "exc" /\ conts[log[2].cont].k = "fin_fail"
  /\ trace[2].e = "E_f"
  /\ asserts = 0

----------------------------------------------------------------------------
(* Specification SpecPending: chains whose user functions may return the   *)
(* facade of a Deffered they keep and settle later                         *)

PendingThenFns == {FnPending("f_pend", Ty), FnValue("f_val", <<I(7), S("Y")>>)}
PendingExcFns == {FnPending("g_pend", Ty)}

NextPending ==
  \/ \E s \in deffereds, value \in Bundles : Deffered_SetValue(s, value)
  \/ \E s \in deffereds, e \in Errors : Deffered_SetException(s, e)
  \/ \E s \in handles, fn \in PendingThenFns : Promise_Then(s, fn)
  \/ \E s \in handles, fn \in PendingExcFns : Promise_Exception(s, fn)
  \/ \E s \in handles, fn \in FinFns : Promise_Finally(s, fn)

SpecPending == Init /\ [][NextPending]_vars

\* the States a user function returned pending (the root is State 1)
PendingResults == deffereds \ {1}

\* C19: a pending result is not awaited. The adapter registers nothing on a
\* result r it found pending; the stage of a Then or Exception whose user
\* function returns pending results stays as it was constructed (for Then:
\* unless a rejection was passed through to it) and nothing registered on it
\* is invoked; settling r afterwards invokes nothing and changes no other
\* State.
C19_PendingNotAwaited ==
  /\ [] ( /\ \A r \in PendingResults : NoConts(states[r])
          /\ \A c \in DOMAIN conts :
               ( /\ conts[c].fn.k = "pending"
                 /\ conts[c].k = "then_done" => Invocations(c + 1) = 0 )
               => /\ Untouched(conts[c].tgt)
                  /\ \A c2 \in {states[conts[c].tgt].done, states[conts[c].tgt].fail}
                                 \ {NoRunnable} : Invocations(c2) = 0 )
  /\ [][ \A r \in PendingResults :
           ( \/ \E value \in Bundles : Deffered_SetValue(r, value)
             \/ \E e \in Errors : Deffered_SetException(r, e) )
           => /\ log' = log
              /\ trace' = trace
              /\ \A s \in DOMAIN states : s # r => states'[s] = states[s] ]_vars

\* C19 witness: Then(f_pend) and a Finally on its stage, the root fulfilled
\* (f_pend called, its result 3 pending), then 3 fulfilled by the user: the
\* stage 2 is as constructed and Finally's function was not called
C19_Witness ==
  /\ calls = 4
  /\ lastCall.op = "SetValue" /\ lastCall.s = 3
  /\ deffereds = {1, 3}
  /\ Len(trace) = 1 /\ trace[1].fn = "f_pend"
  /\ states[3].st = fulfilled
  /\ Untouched(2)
  /\ IsKind(states[2].done, "fin_done")
  /\ Invocations(states[2].done) = 0

----------------------------------------------------------------------------
(* Specification SpecOrder: one linear chain on a root Deffered, run with  *)
(* the root settled before the chain is built or after it                  *)

\* the longest chain of Then / Exception calls (a Finally may end it)
MaxChain == 3

\* a caller's program: how the root is settled, the chaining calls made one on
\* the result of the other, and when the root is settled
Link(op, fn) == [op |-> op, fn |-> fn]
Links == {Link("Then", fn) : fn \in ThenFns} \cup {Link("Exception", fn) : fn \in ExcFns}
Enders == {Link("Finally", fn) : fn \in FinFns}
Chains ==
  LET open == UNION {[1..k -> Links] : k \in 0..MaxChain}
  IN  open \cup {Append(c, l) : c \in open, l \in Enders}
Settlements == {[side |-> "value", val |-> B, e |-> nullptr] : B \in Bundles}
                 \cup {[side |-> "exc", val |-> <<>>, e |-> e] : e \in Errors}
Orders == {"before", "after"}
Programs == [settle : Settlements, chain : Chains, order : Orders]

\* Deffered<int, std::string> root; nothing called yet
World0 == [states |-> <<NewState(Ty)>>, conts |-> <<>>, log |-> <<>>, trace |-> <<>>,
           asserts |-> 0, call |-> 0, owned |-> {1}]

\* root.SetValue(B) or root.SetException(e)
Settle(w, x) ==
  IF x.side = "value" THEN State_SetValue(w, 1, x.val) ELSE State_SetException(w, 1, x.e)

\* one chaining call on the stage cur
Chained(w, cur, l) ==
  CASE l.op = "Then" -> ThenOn(w, cur, l.fn)
    [] l.op = "Exception" -> ExceptionOn(w, cur, l.fn)
    [] OTHER -> FinallyOn(w, cur, l.fn)

\* the run of a chain from its i-th call on: the world it ends in and the
\* stages, the root first
RECURSIVE Built(_, _, _, _)
Built(w, stages, chain, i) ==
  IF i > Len(chain) THEN [w |-> w, stages |-> stages]
  ELSE LET cur == stages[Len(stages)]
           w1 == Chained(w, cur, chain[i])
       IN  Built(w1, IF chain[i].op = "Finally" THEN stages
                     ELSE Append(stages, Len(w.states) + 1), chain, i + 1)

\* the whole run of a program in the given order
RunOf(p, order) ==
  IF order = "before" THEN Built(Settle(World0, p.settle), <<1>>, p.chain, 1)
  ELSE LET b == Built(World0, <<1>>, p.chain, 1)
       IN  [w |-> Settle(b.w, p.settle), stages |-> b.stages]

\* where the caller goes after its i-th chaining call
AfterLink(i) ==
  IF i < Len(input.chain) THEN "build"
  ELSE IF input.order = "before" THEN "done" ELSE "settle"

InitOrder ==
  /\ states = <<NewState(Ty)>>
  /\ conts = <<>>
  /\ log = <<>>
  /\ trace = <<>>
  /\ asserts = 0
  /\ freed = <<>>
  /\ calls = 0
  /\ lastCall = NoCall
  /\ handles = {1}
  /\ deffereds = {1}
  /\ input \in Programs
  /\ pc = [at |-> IF input.order = "before" \/ input.chain = <<>> THEN "settle" ELSE "build",
           cur |-> 1, i |-> 0, stages |-> <<1>>]

\* where the caller goes after settling the root
AfterSettle ==
  IF input.order = "before" /\ input.chain # <<>> THEN "build" ELSE "done"

Order_SetValue ==
  /\ pc.at = "settle"
  /\ input.settle.side = "value"
  /\ Commit(State_SetValue(World, 1, input.settle.val))
  /\ lastCall' = CallRec("SetValue", 1, "none", 0, 0, input.settle.val, nullptr, pending,
                         <<>>, nullptr, 0)
  /\ pc' = [pc EXCEPT !.at = AfterSettle]
  /\ UNCHANGED <<freed, handles, input>>

Order_SetException ==
  /\ pc.at = "settle"
  /\ input.settle.side = "exc"
  /\ Commit(State_SetException(World, 1, input.settle.e))
  /\ lastCall' = CallRec("SetException", 1, "none", 0, 0, <<>>, input.settle.e, pending,
                         <<>>, nullptr, 0)
  /\ pc' = [pc EXCEPT !.at = AfterSettle]
  /\ UNCHANGED <<freed, handles, input>>

Order_Then ==
  /\ pc.at = "build"
  /\ input.chain[pc.i + 1].op = "Then"
  /\ Then(pc.cur, input.chain[pc.i + 1].fn)
  /\ pc' = [at |-> AfterLink(pc.i + 1), cur |-> Len(states) + 1, i |-> pc.i + 1,
            stages |-> Append(pc.stages, Len(states) + 1)]
  /\ UNCHANGED input

Order_Exception ==
  /\ pc.at = "build"
  /\ input.chain[pc.i + 1].op = "Exception"
  /\ Exception(pc.cur, input.chain[pc.i + 1].fn)
  /\ pc' = [at |-> AfterLink(pc.i + 1), cur |-> Len(states) + 1, i |-> pc.i + 1,
            stages |-> Append(pc.stages, Len(states) + 1)]
  /\ UNCHANGED input

Order_Finally ==
  /\ pc.at = "build"
  /\ input.chain[pc.i + 1].op = "Finally"
  /\ Finally(pc.cur, input.chain[pc.i + 1].fn)
  /\ pc' = [pc EXCEPT !.at = AfterLink(pc.i + 1), !.i = pc.i + 1]
  /\ UNCHANGED input

NextOrder ==
  \/ Order_SetValue
  \/ Order_SetException
  \/ Order_Then
  \/ Order_Exception
  \/ Order_Finally

SpecOrder == InitOrder /\ [][NextOrder]_vars

\* what a run shows: the user functions called, in order, with their
\* arguments, and the status and payload each stage is left with
CallsOf(tr) ==
  [j \in DOMAIN tr |-> [fn |-> tr[j].fn, cont |-> tr[j].cont, sig |-> tr[j].sig,
                        val |-> tr[j].val, e |-> tr[j].e]]
StagesOf(sts, stages) ==
  [k \in DOMAIN stages |-> [st |-> sts[stages[k]].st, value |-> sts[stages[k]].value,
                            e |-> sts[stages[k]].e]]
OtherOrder == IF input.order = "before" THEN "after" ELSE "before"

\* C18: order independence of building and settling. For every chain of
\* Then / Exception / Finally calls, each made on the result of the one
\* before, with user functions that return settled facades, the run that
\* settles the root first and the run that settles it last call the same user
\* functions in the same order with the same arguments, fail the same
\* asserts and leave every stage with the same status and payload.
C18_OrderIndependence ==
  pc.at = "done"
    => LET other == RunOf(input, OtherOrder)
       IN  /\ CallsOf(trace) = CallsOf(other.w.trace)
           /\ StagesOf(states, pc.stages) = StagesOf(other.w.states, other.stages)
           /\ asserts = other.w.asserts

\* C18 witness: the root is rejected with E1 after Then(f_val), Exception(g_exc)
\* and Finally(h) were chained: g_exc was called with E1 and h with g_exc's E_g
C18_Witness ==
  /\ pc.at = "done"
  /\ input.order = "after"
  /\ Len(input.chain) = 3
  /\ input.chain[1].fn.id = "f_val" /\ input.chain[2].fn.id = "g_exc"
  /\ input.chain[3].op = "Finally"
  /\ input.settle.e = "E1"
  /\ Len(trace) = 2
  /\ trace[1].fn = "g_exc" /\ trace[1].e = "E1"
  /\ trace[2].fn = "h" /\ trace[2].e = "E_g"
  /\ \A j \in DOMAIN trace : trace[j].call = calls
  /\ states[pc.stages[2]].st = pending
  /\ states[pc.stages[3]].st = pending

====
